---- MODULE Spec2Model ----
(***************************************************************************)
(* CTAP HID packet codec (src/src/packet.rs): CtapCommand and its wire     *)
(* byte, InitPacket and ContPacket over a 65-byte buffer, and the Packet   *)
(* trait's from_wire_format / to_wire_format.                              *)
(*                                                                         *)
(* A buffer is a sequence of bytes; the source's 0-based index i is the    *)
(* sequence index i + 1 (see ByteAt).  A call either returns a packet or   *)
(* panics (a slice index out of range, or copy_from_slice on slices of     *)
(* different lengths).                                                     *)
(***************************************************************************)
EXTENDS Integers, Sequences, FiniteSets, TLC

VARIABLES pc, kind, cid, cmd, size, seq, payload, data,
          pkt, wire, rx, rxwire, cmdByte, cmdDecoded

vars == <<pc, kind, cid, cmd, size, seq, payload, data,
          pkt, wire, rx, rxwire, cmdByte, cmdDecoded>>

(***************************************************************************)
(* Program constants.                                                      *)
(***************************************************************************)
FRAME_INIT == 128

BUF_LEN == 65

(***************************************************************************)
(* Bounds of the explored inputs.                                          *)
(***************************************************************************)
MaxPayloadLen == 60

MaxCidLen == 5

MaxDataLen == 65

(***************************************************************************)
(* u8 / u16 arithmetic: the operators |, ^ and & on 8-bit values, bit by   *)
(* bit, and the 16-bit >> 8, << 8 and casts used by the size field.        *)
(***************************************************************************)
RECURSIVE BitOr(_, _, _)
BitOr(a, b, n) ==
    IF n = 0 THEN 0
    ELSE (IF (a % 2) + (b % 2) >= 1 THEN 1 ELSE 0)
         + 2 * BitOr(a \div 2, b \div 2, n - 1)

RECURSIVE BitXor(_, _, _)
BitXor(a, b, n) ==
    IF n = 0 THEN 0
    ELSE (((a % 2) + (b % 2)) % 2)
         + 2 * BitXor(a \div 2, b \div 2, n - 1)

RECURSIVE BitAnd(_, _, _)
BitAnd(a, b, n) ==
    IF n = 0 THEN 0
    ELSE ((a % 2) * (b % 2))
         + 2 * BitAnd(a \div 2, b \div 2, n - 1)

(***************************************************************************)
(* enum CtapCommand, #[repr(u8)], with derived ToPrimitive/FromPrimitive.  *)
(***************************************************************************)
CtapCommand ==
    {"Invalid", "Ping", "Msg", "Lock", "Init", "Wink", "Cbor", "Cancel",
     "Keepalive", "Error"}

\* A mis-typed discriminant: Msg = 0x02 instead of 0x03.
CtapCommand_to_u8_msg2(c) ==
    CASE c = "Invalid"   -> 0
      [] c = "Ping"      -> 1
      [] c = "Msg"       -> 2
      [] c = "Lock"      -> 4
      [] c = "Init"      -> 6
      [] c = "Wink"      -> 8
      [] c = "Cbor"      -> 16
      [] c = "Cancel"    -> 17
      [] c = "Keepalive" -> 59
      [] c = "Error"     -> 63

\* self.to_u8(): Some(discriminant) for every variant ("None" never arises
\* for a value of the closed enum).
CtapCommand_to_u8(c) ==
    CASE c = "Invalid"   -> 0
      [] c = "Ping"      -> 1
      [] c = "Msg"       -> 3
      [] c = "Lock"      -> 4
      [] c = "Init"      -> 6
      [] c = "Wink"      -> 8
      [] c = "Cbor"      -> 16
      [] c = "Cancel"    -> 17
      [] c = "Keepalive" -> 59
      [] c = "Error"     -> 63

\* A decoder with a catch-all arm: every unknown byte decodes to Error.
CtapCommand_from_u8_catchall(b) ==
    CASE b = 0  -> "Invalid"
      [] b = 1  -> "Ping"
      [] b = 3  -> "Msg"
      [] b = 4  -> "Lock"
      [] b = 6  -> "Init"
      [] b = 8  -> "Wink"
      [] b = 16 -> "Cbor"
      [] b = 17 -> "Cancel"
      [] b = 59 -> "Keepalive"
      [] OTHER  -> "Error"

\* CtapCommand::from_u8(b): Some(variant) for a discriminant of the enum,
\* None for every other byte.
CtapCommand_from_u8(b) ==
    CASE b = 0  -> "Invalid"
      [] b = 1  -> "Ping"
      [] b = 3  -> "Msg"
      [] b = 4  -> "Lock"
      [] b = 6  -> "Init"
      [] b = 8  -> "Wink"
      [] b = 16 -> "Cbor"
      [] b = 17 -> "Cancel"
      [] b = 59 -> "Keepalive"
      [] b = 63 -> "Error"
      [] OTHER  -> "None"

\* CtapCommand::to_wire_format: match self.to_u8() { Some(x) => x, None => 0 }
CtapCommand_to_wire_format(c) ==
    IF c \in CtapCommand THEN CtapCommand_to_u8(c) ELSE 0

(***************************************************************************)
(* Results of a call: a packet holding its buffer, a panic, or no call.    *)
(***************************************************************************)
Ok(buf) == [st |-> "ok", buf |-> buf]

Panicked == [st |-> "panic", buf |-> <<>>]

NoPacket == [st |-> "none", buf |-> <<>>]

\* [0; 65]
Zeroed == Ok([i \in 1..BUF_LEN |-> 0])

\* buf[i], i the source's 0-based index.
ByteAt(buf, i) == buf[i + 1]

\* &buf[lo..hi], the source's 0-based half-open range (in range at every use
\* on a 65-byte buffer).
Slice(buf, lo, hi) == SubSeq(buf, lo + 1, hi)

\* A copy that silently truncates to the shorter of the two slices.
copy_from_slice_truncating(r, lo, hi, src) ==
    IF r.st # "ok" THEN r
    ELSE Ok([i \in 1..Len(r.buf) |->
                IF lo < i /\ i <= hi /\ i - lo <= Len(src)
                THEN src[i - lo] ELSE r.buf[i]])

\* r.0[lo..hi].copy_from_slice(src): the range must lie in the buffer and
\* the two slices must have the same length, else the call panics.
copy_from_slice(r, lo, hi, src) ==
    IF r.st # "ok" THEN r
    ELSE IF lo > hi \/ hi > Len(r.buf) THEN Panicked
    ELSE IF hi - lo # Len(src) THEN Panicked
    ELSE Ok([i \in 1..Len(r.buf) |->
                IF lo < i /\ i <= hi THEN src[i - lo] ELSE r.buf[i]])

\* r.0[i] = v
set_byte(r, i, v) ==
    IF r.st # "ok" THEN r ELSE Ok([r.buf EXCEPT ![i + 1] = v])

(***************************************************************************)
(* InitPacket                                                              *)
(***************************************************************************)
\* Byte 5 written without the FRAME_INIT flag.
InitPacket_new_noflag(c, m, s, p) ==
    LET p1 == copy_from_slice(Zeroed, 1, 5, c)
        p2 == set_byte(p1, 5, CtapCommand_to_wire_format(m))
        p3 == set_byte(p2, 6, BitAnd(s \div 256, 255, 16) % 256)
        p4 == set_byte(p3, 7, BitAnd(s, 255, 16) % 256)
    IN  copy_from_slice(p4, 8, Len(p) + 8, p)

\* The size written little-endian.
InitPacket_new_le(c, m, s, p) ==
    LET p1 == copy_from_slice(Zeroed, 1, 5, c)
        p2 == set_byte(p1, 5, BitOr(FRAME_INIT, CtapCommand_to_wire_format(m), 8))
        p3 == set_byte(p2, 6, BitAnd(s, 255, 16) % 256)
        p4 == set_byte(p3, 7, BitAnd(s \div 256, 255, 16) % 256)
    IN  copy_from_slice(p4, 8, Len(p) + 8, p)

InitPacket_new(c, m, s, p) ==
    LET p1 == copy_from_slice(Zeroed, 1, 5, c)
        p2 == set_byte(p1, 5, BitOr(FRAME_INIT, CtapCommand_to_wire_format(m), 8))
        p3 == set_byte(p2, 6, BitAnd(s \div 256, 255, 16) % 256)
        p4 == set_byte(p3, 7, BitAnd(s, 255, 16) % 256)
    IN  copy_from_slice(p4, 8, Len(p) + 8, p)

InitPacket_cid(buf) == Slice(buf, 1, 5)

InitPacket_cmd(buf) ==
    LET d == CtapCommand_from_u8(BitXor(ByteAt(buf, 5), FRAME_INIT, 8))
    IN  IF d = "None" THEN "Invalid" ELSE d

\* The two size bytes read in the wrong order.
InitPacket_size_le(buf) ==
    BitOr((ByteAt(buf, 7) * 256) % 65536, ByteAt(buf, 6), 16)

\* ((u16::from(self.0[6])) << 8) | u16::from(self.0[7])
InitPacket_size(buf) ==
    BitOr((ByteAt(buf, 6) * 256) % 65536, ByteAt(buf, 7), 16)

InitPacket_payload(buf) == Slice(buf, 8, 65)

\* The report body copied to offset 0 instead of offset 1.
InitPacket_from_wire_format_shifted(d) ==
    copy_from_slice(Zeroed, 0, 64, d)

InitPacket_from_wire_format(d) == copy_from_slice(Zeroed, 1, 65, d)

InitPacket_to_wire_format(buf) == buf

(***************************************************************************)
(* ContPacket                                                              *)
(***************************************************************************)
\* The sequence number masked to seven bits before it is stored.
ContPacket_new_masked(c, s, p) ==
    LET p1 == copy_from_slice(Zeroed, 1, 5, c)
        p2 == set_byte(p1, 5, BitAnd(s, 127, 8))
    IN  copy_from_slice(p2, 6, Len(p) + 6, p)

ContPacket_new(c, s, p) ==
    LET p1 == copy_from_slice(Zeroed, 1, 5, c)
        p2 == set_byte(p1, 5, s)
    IN  copy_from_slice(p2, 6, Len(p) + 6, p)

ContPacket_cid(buf) == Slice(buf, 1, 5)

ContPacket_seq(buf) == ByteAt(buf, 5)

\* The init frame's payload offset used for a continuation frame.
ContPacket_payload_at8(buf) == Slice(buf, 8, 65)

ContPacket_payload(buf) == Slice(buf, 6, 65)

ContPacket_from_wire_format(d) == copy_from_slice(Zeroed, 1, 65, d)

ContPacket_to_wire_format(buf) == buf

(***************************************************************************)
(* Inputs of the calls.                                                    *)
(***************************************************************************)
FillByte(f, i) ==
    CASE f = "ramp" -> (17 * i) % 256
      [] f = "ff"   -> 255

Fill(n, f) == [i \in 1..n |-> FillByte(f, i)]

CidInputs == {Fill(n, "ramp") : n \in 3..MaxCidLen} \cup {Fill(4, "ff")}

SizeInputs == {0, 1, 4660, 65535}

SeqInputs == {0, 3, 127, 128, 255}

PayloadInputs == {Fill(n, f) : n \in 0..MaxPayloadLen, f \in {"ramp", "ff"}}

\* A report body as the transport hands it over: d[i] is frame byte i.
MkData(n, b5, s, f) ==
    [i \in 1..n |->
        CASE i = 5 -> b5
          [] i = 6 -> s \div 256
          [] i = 7 -> s % 256
          [] OTHER -> FillByte(f, i)]

DataInputs ==
    {MkData(n, b5, s, f) : n \in (BUF_LEN - 2)..MaxDataLen, b5 \in 0..255,
                           s \in {0, 4660}, f \in {"ramp", "ff"}}

(***************************************************************************)
(* The state: the arguments of the calls made so far and their results.    *)
(***************************************************************************)
Init ==
    /\ pc = "start"
    /\ kind = "none"
    /\ cid = <<>>
    /\ cmd = "Invalid"
    /\ size = 0
    /\ seq = 0
    /\ payload = <<>>
    /\ data = <<>>
    /\ pkt = NoPacket
    /\ wire = <<>>
    /\ rx = NoPacket
    /\ rxwire = <<>>
    /\ cmdByte = 0
    /\ cmdDecoded = "None"

\* InitPacket::new(cid, cmd, size, payload)
CallInitPacketNew ==
    /\ pc = "start"
    /\ \E c \in CidInputs, m \in CtapCommand, s \in SizeInputs, p \in PayloadInputs :
          /\ cid' = c /\ cmd' = m /\ size' = s /\ payload' = p
          /\ pkt' = InitPacket_new(c, m, s, p)
    /\ kind' = "init"
    /\ pc' = IF pkt'.st = "ok" THEN "built" ELSE "aborted"
    /\ UNCHANGED <<seq, data, wire, rx, rxwire, cmdByte, cmdDecoded>>

\* ContPacket::new(cid, seq, payload)
CallContPacketNew ==
    /\ pc = "start"
    /\ \E c \in CidInputs, s \in SeqInputs, p \in PayloadInputs :
          /\ cid' = c /\ seq' = s /\ payload' = p
          /\ pkt' = ContPacket_new(c, s, p)
    /\ kind' = "cont"
    /\ pc' = IF pkt'.st = "ok" THEN "built" ELSE "aborted"
    /\ UNCHANGED <<cmd, size, data, wire, rx, rxwire, cmdByte, cmdDecoded>>

\* packet.to_wire_format() on the packet a constructor returned
CallToWireFormat ==
    /\ pc = "built"
    /\ wire' = IF kind = "init" THEN InitPacket_to_wire_format(pkt.buf)
                               ELSE ContPacket_to_wire_format(pkt.buf)
    /\ pc' = "encoded"
    /\ UNCHANGED <<kind, cid, cmd, size, seq, payload, data, pkt, rx, rxwire,
                   cmdByte, cmdDecoded>>

\* from_wire_format on what to_wire_format returned: either the returned
\* bytes as they are, or the 64-byte report body that follows byte 0.
CallFromWireFormatOfEncoded ==
    /\ pc = "encoded"
    /\ \E d \in {wire, Tail(wire)} :
          /\ data' = d
          /\ rx' = IF kind = "init" THEN InitPacket_from_wire_format(d)
                                   ELSE ContPacket_from_wire_format(d)
    /\ pc' = IF rx'.st = "ok" THEN "decoded" ELSE "aborted"
    /\ UNCHANGED <<kind, cid, cmd, size, seq, payload, pkt, wire, rxwire,
                   cmdByte, cmdDecoded>>

\* InitPacket::from_wire_format(data) on a report body from the transport
CallInitPacketFromWireFormat ==
    /\ pc = "start"
    /\ \E d \in DataInputs :
          /\ data' = d
          /\ rx' = InitPacket_from_wire_format(d)
    /\ kind' = "init"
    /\ pc' = IF rx'.st = "ok" THEN "decoded" ELSE "aborted"
    /\ UNCHANGED <<cid, cmd, size, seq, payload, pkt, wire, rxwire,
                   cmdByte, cmdDecoded>>

\* ContPacket::from_wire_format(data) on a report body from the transport
CallContPacketFromWireFormat ==
    /\ pc = "start"
    /\ \E d \in DataInputs :
          /\ data' = d
          /\ rx' = ContPacket_from_wire_format(d)
    /\ kind' = "cont"
    /\ pc' = IF rx'.st = "ok" THEN "decoded" ELSE "aborted"
    /\ UNCHANGED <<cid, cmd, size, seq, payload, pkt, wire, rxwire,
                   cmdByte, cmdDecoded>>

\* packet.to_wire_format() on a decoded packet
CallToWireFormatOfDecoded ==
    /\ pc = "decoded"
    /\ rxwire' = IF kind = "init" THEN InitPacket_to_wire_format(rx.buf)
                                 ELSE ContPacket_to_wire_format(rx.buf)
    /\ pc' = "reencoded"
    /\ UNCHANGED <<kind, cid, cmd, size, seq, payload, data, pkt, wire, rx,
                   cmdByte, cmdDecoded>>

\* cmd.to_wire_format()
CallCommandToWireFormat ==
    /\ pc = "start"
    /\ \E m \in CtapCommand :
          /\ cmd' = m
          /\ cmdByte' = CtapCommand_to_wire_format(m)
    /\ kind' = "cmd"
    /\ pc' = "cmd_encoded"
    /\ UNCHANGED <<cid, size, seq, payload, data, pkt, wire, rx, rxwire,
                   cmdDecoded>>

\* CtapCommand::from_u8(byte) on the byte just produced
CallCommandFromU8 ==
    /\ pc = "cmd_encoded"
    /\ cmdDecoded' = CtapCommand_from_u8(cmdByte)
    /\ pc' = "cmd_decoded"
    /\ UNCHANGED <<kind, cid, cmd, size, seq, payload, data, pkt, wire, rx,
                   rxwire, cmdByte>>

Next ==
    \/ CallInitPacketNew
    \/ CallContPacketNew
    \/ CallToWireFormat
    \/ CallFromWireFormatOfEncoded
    \/ CallInitPacketFromWireFormat
    \/ CallContPacketFromWireFormat
    \/ CallToWireFormatOfDecoded
    \/ CallCommandToWireFormat
    \/ CallCommandFromU8

Spec == Init /\ [][Next]_vars

TypeOK ==
    /\ pkt.st \in {"none", "ok", "panic"}
    /\ rx.st \in {"none", "ok", "panic"}
    /\ pkt.st = "ok" => Len(pkt.buf) = BUF_LEN
    /\ rx.st = "ok" => Len(rx.buf) = BUF_LEN

(***************************************************************************)
(* Vocabulary of the properties.                                           *)
(***************************************************************************)
\* p followed by zeros up to n bytes.
Pad(p, n) == [i \in 1..n |-> IF i <= Len(p) THEN p[i] ELSE 0]

\* The documented wire byte of each command.
DocumentedByte(c) ==
    CASE c = "Invalid"   -> 0
      [] c = "Ping"      -> 1
      [] c = "Msg"       -> 3
      [] c = "Lock"      -> 4
      [] c = "Init"      -> 6
      [] c = "Wink"      -> 8
      [] c = "Cbor"      -> 16
      [] c = "Cancel"    -> 17
      [] c = "Keepalive" -> 59
      [] c = "Error"     -> 63

IsCommandByte(b) == \E c \in CtapCommand : DocumentedByte(c) = b

\* The command whose documented wire byte is b, Invalid when there is none.
DocumentedCommand(b) ==
    IF IsCommandByte(b)
    THEN CHOOSE c \in CtapCommand : DocumentedByte(c) = b
    ELSE "Invalid"

\* Bit 7 of a byte.
HighBit(b) == b \div 128

\* b AND 0x7F, by arithmetic.
Low7(b) == b % 128

\* A packet built by a constructor and then passed through to_wire_format
\* and from_wire_format.
InitRoundTrip ==
    kind = "init" /\ pkt.st = "ok" /\ rx.st # "none"
    /\ Len(cid) = 4 /\ Len(payload) <= 57

ContRoundTrip ==
    kind = "cont" /\ pkt.st = "ok" /\ rx.st # "none"
    /\ Len(cid) = 4 /\ Len(payload) <= 59 /\ seq <= 127

InitFieldsReproduced ==
    /\ rx.st = "ok"
    /\ InitPacket_cid(rx.buf) = cid
    /\ InitPacket_cmd(rx.buf) = cmd
    /\ InitPacket_size(rx.buf) = size
    /\ InitPacket_payload(rx.buf) = Pad(payload, 57)

ContFieldsReproduced ==
    /\ rx.st = "ok"
    /\ ContPacket_cid(rx.buf) = cid
    /\ ContPacket_seq(rx.buf) = seq
    /\ ContPacket_payload(rx.buf) = Pad(payload, 59)

(***************************************************************************)
(* C1 InitPacket round trip.                                               *)
(***************************************************************************)
\* C1 as stated: from_wire_format applied to the very bytes to_wire_format
\* returned reproduces cid, cmd, size and the zero-padded payload.
C1_RoundTripOfReturnedBytes ==
    (InitRoundTrip /\ data = wire) => InitFieldsReproduced

\* C1 amended: from_wire_format applied to bytes 1..64 of the buffer that
\* to_wire_format returned (the report body after the reserved byte 0)
\* reproduces cid, cmd, size and the payload zero-padded to 57 bytes, for
\* every 4-byte cid, every command, every size and every payload <= 57 bytes.
C1_RoundTripOfReportBody ==
    (InitRoundTrip /\ data = Tail(wire)) => InitFieldsReproduced

C1_Witness ==
    /\ InitRoundTrip /\ data = Tail(wire) /\ rx.st = "ok"
    /\ cmd = "Keepalive" /\ size = 4660 /\ Len(payload) = 56

(***************************************************************************)
(* C2 ContPacket round trip.                                               *)
(***************************************************************************)
\* C2 as stated: from_wire_format applied to the very bytes to_wire_format
\* returned reproduces cid, seq and the zero-padded payload.
C2_RoundTripOfReturnedBytes ==
    (ContRoundTrip /\ data = wire) => ContFieldsReproduced

\* C2 amended: from_wire_format applied to bytes 1..64 of the buffer that
\* to_wire_format returned reproduces cid, seq and the payload zero-padded
\* to 59 bytes, for every 4-byte cid, seq in 0..127 and payload <= 59 bytes.
C2_RoundTripOfReportBody ==
    (ContRoundTrip /\ data = Tail(wire)) => ContFieldsReproduced

C2_Witness ==
    /\ ContRoundTrip /\ data = Tail(wire) /\ rx.st = "ok"
    /\ seq = 127 /\ Len(payload) = 58

(***************************************************************************)
(* C3 Frame-type disambiguation.                                           *)
(***************************************************************************)
\* C3: every buffer built by InitPacket::new has bit 7 of byte 5 set, and
\* every buffer built by ContPacket::new with seq <= 127 has it clear (so no
\* buffer comes from both constructors: InitPacket::new returns it for no
\* command, whatever cid, size and payload are read back from it).
C3_FrameTypeBit ==
    /\ (kind = "init" /\ pkt.st = "ok") => HighBit(ByteAt(pkt.buf, 5)) = 1
    /\ (kind = "cont" /\ pkt.st = "ok" /\ seq <= 127)
          => /\ HighBit(ByteAt(pkt.buf, 5)) = 0
             /\ \A m \in CtapCommand :
                   pkt # InitPacket_new(Slice(pkt.buf, 1, 5), m,
                                        InitPacket_size(pkt.buf),
                                        Slice(pkt.buf, 8, 65))

C3_Witness ==
    /\ kind = "cont" /\ pkt.st = "ok" /\ pc = "built"
    /\ seq = 127 /\ Len(payload) = 59

(***************************************************************************)
(* C4 cmd() masks the 0x80 bit off byte 5.                                 *)
(***************************************************************************)
\* C4: for every InitPacket, built by new or decoded from any 64 bytes,
\* cmd() is the command whose wire byte is (byte 5 AND 0x7F), or Invalid
\* when no command has that byte.
C4_CmdMasksFrameBit ==
    /\ (kind = "init" /\ pkt.st = "ok")
          => InitPacket_cmd(pkt.buf) = DocumentedCommand(Low7(ByteAt(pkt.buf, 5)))
    /\ (kind = "init" /\ rx.st = "ok")
          => InitPacket_cmd(rx.buf) = DocumentedCommand(Low7(ByteAt(rx.buf, 5)))

(***************************************************************************)
(* C5 Command mapping.                                                     *)
(***************************************************************************)
\* C5: to_wire_format of each of the ten commands is its documented byte,
\* the ten bytes are pairwise distinct, and decoding the byte gives the
\* same command back.
C5_CommandMapping ==
    /\ pc \in {"cmd_encoded", "cmd_decoded"} =>
          /\ cmdByte = DocumentedByte(cmd)
          /\ \A other \in CtapCommand \ {cmd} :
                CtapCommand_to_wire_format(other) # cmdByte
    /\ pc = "cmd_decoded" => cmdDecoded = cmd

C5_Witness == pc = "cmd_decoded" /\ cmd = "Keepalive" /\ cmdByte = 59

(***************************************************************************)
(* C6 Unknown command bytes decode to Invalid.                             *)
(***************************************************************************)
\* C6: for every 64-byte input whose command byte (byte 5 without the frame
\* bit) is no defined command, from_wire_format succeeds, cmd() is Invalid,
\* cid() is bytes 1-4 and size() the big-endian value of bytes 6-7.
C6_UnknownCommandIsInvalid ==
    (kind = "init" /\ rx.st # "none" /\ Len(data) = 64
        /\ ~IsCommandByte(Low7(data[5])))
    => /\ rx.st = "ok"
       /\ InitPacket_cmd(rx.buf) = "Invalid"
       /\ InitPacket_cid(rx.buf) = SubSeq(data, 1, 4)
       /\ InitPacket_size(rx.buf) = data[6] * 256 + data[7]

C6_Witness ==
    /\ kind = "init" /\ rx.st = "ok" /\ pkt.st = "none"
    /\ data[5] = 126 /\ data[6] = 18 /\ data[7] = 52

(***************************************************************************)
(* C7 InitPacket wire layout.                                              *)
(***************************************************************************)
\* C7: InitPacket::new(cid, cmd, size, payload) with a 4-byte cid and n <= 57
\* payload bytes gives byte 0 = 0, bytes 1-4 = cid, byte 5 = 0x80 | cmd byte,
\* byte 6 = size div 256, byte 7 = size mod 256, bytes 8..8+n-1 = payload
\* and zeros from 8+n through 64; size is written as given.
C7_InitLayout ==
    (kind = "init" /\ pkt.st # "none" /\ Len(cid) = 4 /\ Len(payload) <= 57)
    => /\ pkt.st = "ok"
       /\ Len(pkt.buf) = 65
       /\ ByteAt(pkt.buf, 0) = 0
       /\ \A i \in 1..4 : ByteAt(pkt.buf, i) = cid[i]
       /\ ByteAt(pkt.buf, 5) = 128 + DocumentedByte(cmd)
       /\ ByteAt(pkt.buf, 6) = size \div 256
       /\ ByteAt(pkt.buf, 7) = size % 256
       /\ \A i \in 8..64 :
             ByteAt(pkt.buf, i) =
                IF i < 8 + Len(payload) THEN payload[i - 7] ELSE 0

C7_Witness ==
    /\ kind = "init" /\ pkt.st = "ok" /\ pc = "built"
    /\ Len(payload) = 56 /\ ByteAt(pkt.buf, 63) = 255 /\ ByteAt(pkt.buf, 64) = 0
    /\ size = 4660 /\ cmd = "Ping"

(***************************************************************************)
(* C8 ContPacket wire layout.                                              *)
(***************************************************************************)
\* C8: ContPacket::new(cid, seq, payload) with a 4-byte cid and n <= 59
\* payload bytes gives byte 0 = 0, bytes 1-4 = cid, byte 5 = seq unmodified
\* (also for seq >= 128), bytes 6..6+n-1 = payload and zeros from 6+n
\* through 64; seq() is byte 5 and payload() is the 59 bytes 6-64.
C8_ContLayout ==
    /\ (kind = "cont" /\ pkt.st # "none" /\ Len(cid) = 4 /\ Len(payload) <= 59)
       => /\ pkt.st = "ok"
          /\ Len(pkt.buf) = 65
          /\ ByteAt(pkt.buf, 0) = 0
          /\ \A i \in 1..4 : ByteAt(pkt.buf, i) = cid[i]
          /\ ByteAt(pkt.buf, 5) = seq
          /\ \A i \in 6..64 :
                ByteAt(pkt.buf, i) =
                   IF i < 6 + Len(payload) THEN payload[i - 5] ELSE 0
          /\ ContPacket_seq(pkt.buf) = seq
          /\ ContPacket_payload(pkt.buf) = Pad(payload, 59)
    /\ (kind = "cont" /\ rx.st = "ok")
       => /\ ContPacket_seq(rx.buf) = data[5]
          /\ ContPacket_payload(rx.buf) = SubSeq(data, 6, 64)

C8_Witness ==
    /\ kind = "cont" /\ pkt.st = "ok" /\ pc = "built"
    /\ seq = 255 /\ Len(payload) = 2 /\ ByteAt(pkt.buf, 8) = 0

(***************************************************************************)
(* C9 Decoding keeps the report body in place behind a zero byte 0.        *)
(***************************************************************************)
\* C9: for every 64-byte data and both frame kinds,
\* from_wire_format(data).to_wire_format() is 65 bytes, byte 0 is 0 and
\* bytes 1-64 are data unchanged; both kinds decode the same data to the
\* same buffer; every packet from new or from_wire_format has byte 0 = 0.
C9_DecodeKeepsBody ==
    /\ (kind \in {"init", "cont"} /\ rx.st # "none" /\ Len(data) = 64)
       => /\ rx.st = "ok"
          /\ InitPacket_from_wire_format(data) = ContPacket_from_wire_format(data)
          /\ ByteAt(rx.buf, 0) = 0
    /\ pc = "reencoded"
       => /\ Len(rxwire) = 65
          /\ ByteAt(rxwire, 0) = 0
          /\ Slice(rxwire, 1, 65) = data
    /\ pkt.st = "ok" => ByteAt(pkt.buf, 0) = 0

C9_Witness ==
    /\ pc = "reencoded" /\ kind = "init" /\ pkt.st = "none"
    /\ data[1] = 255 /\ data[5] = 1 /\ data[64] = 255

(***************************************************************************)
(* C10 Malformed input sizes abort the call.                               *)
(***************************************************************************)
\* C10: InitPacket::new with more than 57 payload bytes, ContPacket::new with
\* more than 59, either constructor with a cid that is not 4 bytes, and
\* from_wire_format with data that is not 64 bytes all panic: no packet, and
\* so no truncated, shifted or partly written frame, is returned.
C10_MalformedSizesAbort ==
    /\ (kind = "init" /\ pkt.st # "none" /\ Len(payload) > 57)
          => (pkt = Panicked /\ pc = "aborted")
    /\ (kind = "cont" /\ pkt.st # "none" /\ Len(payload) > 59)
          => (pkt = Panicked /\ pc = "aborted")
    /\ (pkt.st # "none" /\ Len(cid) # 4)
          => (pkt = Panicked /\ pc = "aborted")
    /\ (rx.st # "none" /\ Len(data) # 64)
          => (rx = Panicked /\ pc = "aborted")

C10_Witness ==
    /\ pc = "aborted" /\ kind = "init" /\ pkt = Panicked
    /\ Len(cid) = 4 /\ Len(payload) = 58

====
